---- MODULE Spec2Model ----
(***************************************************************************)
(* A model of dircmp.py: the metadata comparison of two directory trees.   *)
(*                                                                         *)
(* A path is a sequence of names and a name is a sequence of characters,   *)
(* so that str(path) is a sequence of characters and the string test       *)
(* str.startswith of the walker can be computed character by character.    *)
(* Every Python string the program builds (a path string, a reason) is a   *)
(* sequence of string tokens whose concatenation is the Python string.     *)
(***************************************************************************)
EXTENDS Integers, Sequences, FiniteSets, TLC

VARIABLES
    fs,               \* the file system: canonical path -> node (never written)
    dir_a, dir_b,     \* the two directories main is called with
    recursive,        \* --recursive
    follow_symlinks,  \* --follow-symlinks
    output,           \* main's argument output: "given", "absent"; "unset" until read
    pc,               \* position of main: start, walk, report, done, overflow
    stack,            \* the activation records of cmp_dir, innermost last
    changes,          \* the Difference list
    processed, total, \* the module-level progress counters
    ex,               \* main's local ex: "None" or the exception's class name
    result,           \* how main ended: running, return2, return0, returnNone, raise
    raised,           \* the exception main raised, "None" if none
    printed,          \* the difference lines main printed
    written,          \* the content of the output file, <<"unwritten">> if none
    followed,         \* item_a paths that were re-statted with follow_symlinks=True
    compared          \* name-matched pairs whose field checks have run

vars == <<fs, dir_a, dir_b, recursive, follow_symlinks, output, pc, stack, changes,
          processed, total, ex, result, raised, printed, written, followed, compared>>

----------------------------------------------------------------------------
(* Bounds of the model *)

\* the values st_size and st_uid take: 1..MaxVal
MaxVal == 2
\* the number of nested cmp_dir activations the model can hold
MaxDepth == 4

----------------------------------------------------------------------------
(* stat: the file type bits of st_mode and the S_IS* tests *)

S_IFIFO == 4096
S_IFCHR == 8192
S_IFDIR == 16384
S_IFBLK == 24576
S_IFREG == 32768
S_IFLNK == 40960
S_IFSOCK == 49152

\* mode & 0o170000
S_IFMT(mode) == ((mode \div 4096) % 16) * 4096

S_ISDIR(mode) == S_IFMT(mode) = S_IFDIR
S_ISLNK(mode) == S_IFMT(mode) = S_IFLNK
S_ISSOCK(mode) == S_IFMT(mode) = S_IFSOCK
S_ISBLK(mode) == S_IFMT(mode) = S_IFBLK
S_ISCHR(mode) == S_IFMT(mode) = S_IFCHR
S_ISFIFO(mode) == S_IFMT(mode) = S_IFIFO

----------------------------------------------------------------------------
(* Paths and strings *)

Front(s) == SubSeq(s, 1, Len(s) - 1)
Last(s) == s[Len(s)]

\* str(path) of an absolute POSIX path: "/" + name for every component
RECURSIVE Str(_)
Str(p) == IF p = <<>> THEN <<>> ELSE Str(Front(p)) \o <<"/">> \o Last(p)

\* s.startswith(prefix)
StartsWith(s, prefix) ==
    Len(prefix) <= Len(s) /\ SubSeq(s, 1, Len(prefix)) = prefix

\* format(v) of an int or a bool inside an f-string
PyStr(v) ==
    LET s == ToString(v)
    IN  IF s = "TRUE" THEN "True" ELSE IF s = "FALSE" THEN "False" ELSE s

\* code points of the characters file names are made of
Ord(c) ==
    CASE c = "a" -> 97 [] c = "b" -> 98 [] c = "c" -> 99 [] c = "d" -> 100
      [] c = "f" -> 102 [] c = "g" -> 103 [] c = "t" -> 116 [] c = "x" -> 120

\* n1 < n2 for two strings
RECURSIVE NameLess(_, _)
NameLess(n1, n2) ==
    IF n1 = <<>> THEN n2 # <<>>
    ELSE IF n2 = <<>> THEN FALSE
    ELSE IF n1[1] = n2[1] THEN NameLess(Tail(n1), Tail(n2))
    ELSE Ord(n1[1]) < Ord(n2[1])

\* sorted(...) of the entries of one directory: they differ in the name only
RECURSIVE Sorted(_)
Sorted(S) ==
    IF S = {} THEN <<>>
    ELSE LET m == CHOOSE x \in S : \A y \in S \ {x} : NameLess(x, y)
         IN  <<m>> \o Sorted(S \ {m})

----------------------------------------------------------------------------
(* The file system as the program sees it through pathlib *)

Exists(p) == p \in DOMAIN fs

\* the target of the symlink at q; q itself if there is no symlink at q
Deref(q) == IF Exists(q) /\ S_ISLNK(fs[q].st_mode) THEN fs[q].target ELSE q

\* Path.resolve(): the path with every symlink component replaced by its
\* target (the resolved parent is computed once, as a bound value)
RECURSIVE Resolve(_)
Resolve(p) ==
    IF p = <<>> THEN <<>>
    ELSE CHOOSE r \in {Deref(Append(parent, Last(p))) :
                           parent \in {Resolve(Front(p))}} : TRUE

\* where the entry itself lives: the parent resolved, the last component not
Unresolved(p) == Append(Resolve(Front(p)), Last(p))

\* Path.stat(follow_symlinks=False) of a listed entry
lstat(p) == fs[Unresolved(p)]

\* Path.stat(follow_symlinks=True); raises FileNotFoundError if CanStat is false
CanStat(p) == Exists(Resolve(p))
stat(p) == fs[Resolve(p)]

\* Path.is_dir()
is_dir(p) == CanStat(p) /\ S_ISDIR(stat(p).st_mode)

\* Path.is_mount()
is_mount(p) ==
    /\ Exists(Unresolved(p))
    /\ ~S_ISLNK(lstat(p).st_mode)
    /\ S_ISDIR(lstat(p).st_mode)
    /\ lstat(p).mount

\* the class name of the exception dir.iterdir() raises, "None" if it lists
ListErr(d) ==
    IF ~CanStat(d) THEN "FileNotFoundError"
    ELSE IF ~S_ISDIR(stat(d).st_mode) THEN "NotADirectoryError"
    ELSE stat(d).err

\* the names dir.iterdir() yields
ChildNames(d) ==
    LET r == Resolve(d)
    IN  {Last(q) : q \in {x \in DOMAIN fs : Len(x) = Len(r) + 1 /\ Front(x) = r}}

----------------------------------------------------------------------------
(* The walker: append_change, cmp_prop and the body of cmp_dir *)

\* append_change(changes, item_a, prop_name)
append_change(ch, item_a, prop_name) ==
    LET path_a == IF is_dir(item_a) THEN Str(item_a) \o <<"/">> ELSE Str(item_a)
    IN  Append(ch, <<path_a, prop_name>>)

\* cmp_prop(prop_name, item_a, prop_a, prop_b, changes): the value returned
\* and the list as the call leaves it
cmp_prop(prop_name, item_a, prop_a, prop_b, ch) ==
    IF prop_a # prop_b
    THEN [hit |-> TRUE,
          changes |-> append_change(ch, item_a,
                          <<prop_name, "(", PyStr(prop_a), "|", PyStr(prop_b), ")">>)]
    ELSE [hit |-> FALSE, changes |-> ch]

\* a variant of lines 186-207 that compares the group before the user
cmp_rest_gid_first(ch, item_a, item_b, stat_a, stat_b) ==
    LET uid == cmp_prop("stat.st_uid", item_a, stat_a.st_uid, stat_b.st_uid, ch)
        gid == cmp_prop("stat.st_gid", item_a, stat_a.st_gid, stat_b.st_gid, ch)
        mtime == cmp_prop("stat.st_mtime", item_a, stat_a.st_mtime, stat_b.st_mtime, ch)
        fifo == cmp_prop("is_fifo", item_a,
                         S_ISFIFO(stat_a.st_mode), S_ISFIFO(stat_b.st_mode), ch)
        blk == cmp_prop("is_block_device", item_a,
                        S_ISBLK(stat_a.st_mode), S_ISBLK(stat_b.st_mode), ch)
        chr == cmp_prop("is_char_device", item_a,
                        S_ISCHR(stat_a.st_mode), S_ISCHR(stat_b.st_mode), ch)
        sock == cmp_prop("is_socket", item_a,
                         S_ISSOCK(stat_a.st_mode), S_ISSOCK(stat_b.st_mode), ch)
        mode == cmp_prop("stat.st_mode", item_a, stat_a.st_mode, stat_b.st_mode, ch)
    IN  IF gid.hit THEN gid.changes
        ELSE IF uid.hit THEN uid.changes
        ELSE IF mtime.hit THEN mtime.changes
        ELSE IF is_mount(item_a) /\ ~is_mount(item_b)
             THEN append_change(ch, item_a, <<"is_mount">>)
        ELSE IF fifo.hit THEN fifo.changes
        ELSE IF blk.hit THEN blk.changes
        ELSE IF chr.hit THEN chr.changes
        ELSE IF sock.hit THEN sock.changes
        ELSE mode.changes

\* lines 186-207 of the loop body: the checks after the directory handling
cmp_rest(ch, item_a, item_b, stat_a, stat_b) ==
    LET uid == cmp_prop("stat.st_uid", item_a, stat_a.st_uid, stat_b.st_uid, ch)
        gid == cmp_prop("stat.st_gid", item_a, stat_a.st_gid, stat_b.st_gid, ch)
        mtime == cmp_prop("stat.st_mtime", item_a, stat_a.st_mtime, stat_b.st_mtime, ch)
        fifo == cmp_prop("is_fifo", item_a,
                         S_ISFIFO(stat_a.st_mode), S_ISFIFO(stat_b.st_mode), ch)
        blk == cmp_prop("is_block_device", item_a,
                        S_ISBLK(stat_a.st_mode), S_ISBLK(stat_b.st_mode), ch)
        chr == cmp_prop("is_char_device", item_a,
                        S_ISCHR(stat_a.st_mode), S_ISCHR(stat_b.st_mode), ch)
        sock == cmp_prop("is_socket", item_a,
                         S_ISSOCK(stat_a.st_mode), S_ISSOCK(stat_b.st_mode), ch)
        mode == cmp_prop("stat.st_mode", item_a, stat_a.st_mode, stat_b.st_mode, ch)
    IN  IF uid.hit THEN uid.changes
        ELSE IF gid.hit THEN gid.changes
        ELSE IF mtime.hit THEN mtime.changes
        ELSE IF is_mount(item_a) /\ ~is_mount(item_b)
             THEN append_change(ch, item_a, <<"is_mount">>)
        ELSE IF fifo.hit THEN fifo.changes
        ELSE IF blk.hit THEN blk.changes
        ELSE IF chr.hit THEN chr.changes
        ELSE IF sock.hit THEN sock.changes
        ELSE mode.changes

\* lines 180-207 for an entry that is not a directory: the size, then the rest
cmp_file(ch, item_a, item_b, stat_a, stat_b) ==
    LET size == cmp_prop("stat.st_size", item_a, stat_a.st_size, stat_b.st_size, ch)
    IN  IF size.hit THEN size.changes
        ELSE cmp_rest(ch, item_a, item_b, stat_a, stat_b)

\* a variant of line 129 that sees a mismatch only when both listings fail
ListingMismatchBothFail(ex_a, ex_b) ==
    ex_a # ex_b /\ ex_a # "None" /\ ex_b # "None"

\* a variant of line 129 that takes any listing failure for a mismatch
ListingMismatchAnyFail(ex_a, ex_b) == ex_a # "None" \/ ex_b # "None"

\* line 129: the two listings ended differently
ListingMismatch(ex_a, ex_b) == ex_a # ex_b

\* a variant of line 134 that assigns instead of adding
AddTotalAssign(t, items_a) == Len(items_a)

\* line 134: total += len(items_a)
AddTotal(t, items_a) == t + Len(items_a)

\* a variant of line 164 that follows every symlink
FollowAlways(item_a, d_a) == TRUE

\* line 164: the symlink's resolved path starts with str(dir_a) of this call
FollowAllowed(item_a, d_a) == StartsWith(Str(Resolve(item_a)), Str(d_a))

\* a stat result that is not in use
NoStat ==
    [st_mode |-> 0, st_size |-> 0, st_uid |-> 0, st_gid |-> 0, st_mtime |-> 0,
     mount |-> FALSE, target |-> <<>>, err |-> "None"]

\* the activation record of cmp_dir(changes, d_a, d_b, ...) on entry
NewFrame(d_a, d_b) ==
    [dir_a |-> d_a, dir_b |-> d_b, items_a |-> <<>>, item_names_b |-> <<>>,
     pc |-> "list", item |-> <<>>, stat_a |-> NoStat, stat_b |-> NoStat]

Top == stack[Len(stack)]

SetTop(f) == [stack EXCEPT ![Len(stack)] = f]

\* remove a key from the dict item_names_b, which keeps insertion order
RECURSIVE Without(_, _)
Without(names, n) ==
    IF names = <<>> THEN <<>>
    ELSE IF names[1] = n THEN Tail(names)
    ELSE <<names[1]>> \o Without(Tail(names), n)

InSeq(names, n) == \E i \in 1..Len(names) : names[i] = n

\* the record of a pair whose field checks ran
Pair(item_a, item_b, stat_a, stat_b) ==
    [a |-> item_a, b |-> item_b, stat_a |-> stat_a, stat_b |-> stat_b]

\* lines 145-183 for the entry `name` of the activation f: what the iteration
\* does before it continues, recurses or raises
ItemOutcome(f, name) ==
    LET item_a == Append(f.dir_a, name)
        item_b == Append(f.dir_b, name)
        l_a == lstat(item_a)
        l_b == lstat(item_b)
        link == S_ISLNK(l_a.st_mode)
        follow == link /\ follow_symlinks /\ FollowAllowed(item_a, f.dir_a)
        stat_a == IF follow THEN stat(item_a) ELSE l_a
        stat_b == IF follow THEN stat(item_b) ELSE l_b
        go(kind, ch) == [kind |-> kind, changes |-> ch, follow |-> follow,
                         stat_a |-> NoStat, stat_b |-> NoStat]
    IN  IF ~InSeq(f.item_names_b, name)
        THEN [go("continue", append_change(changes, item_a, <<"deleted">>))
                 EXCEPT !.follow = FALSE]
        ELSE IF link /\ ~S_ISLNK(l_b.st_mode)
        THEN go("continue", append_change(changes, item_a, <<"is_symlink">>))
        ELSE IF follow /\ ~(CanStat(item_a) /\ CanStat(item_b))
        THEN go("raise", changes)
        ELSE IF S_ISDIR(stat_a.st_mode)
        THEN IF ~S_ISDIR(stat_b.st_mode)
             THEN go("continue", append_change(changes, item_a, <<"is_dir">>))
             ELSE IF recursive
             THEN [go("recurse", changes) EXCEPT !.stat_a = stat_a, !.stat_b = stat_b]
             ELSE [go("compared", cmp_rest(changes, item_a, item_b, stat_a, stat_b))
                      EXCEPT !.stat_a = stat_a, !.stat_b = stat_b]
        ELSE [go("compared", cmp_file(changes, item_a, item_b, stat_a, stat_b))
                 EXCEPT !.stat_a = stat_a, !.stat_b = stat_b]

----------------------------------------------------------------------------
(* The file systems and arguments the program is run on *)

T == <<"t">>
RootA == <<T, <<"a">>>>
RootB == <<T, <<"b">>>>
Outside == <<T, <<"a", "b">>>>
OutsideFile == Append(Outside, <<"x">>)
NameC == <<"c">>
NameD == <<"d">>
NameF == <<"f">>
NameG == <<"g">>

Perms == {420, 493}
Vals == 1..MaxVal
\* the values st_gid and st_mtime take
TwoVals == {1, 2}
FileTypes == {S_IFREG, S_IFDIR, S_IFIFO, S_IFCHR, S_IFBLK, S_IFSOCK}
ListErrors == {"PermissionError", "OSError"}

Node(type, perm, size, uid, gid, mtime, mount, target, err) ==
    [st_mode |-> type + perm, st_size |-> size, st_uid |-> uid, st_gid |-> gid,
     st_mtime |-> mtime, mount |-> mount, target |-> target, err |-> err]

PlainDir == Node(S_IFDIR, 493, 1, 1, 1, 1, FALSE, <<>>, "None")
PlainFile == Node(S_IFREG, 420, 1, 1, 1, 1, FALSE, <<>>, "None")
FailingDir(e) == Node(S_IFDIR, 493, 1, 1, 1, 1, FALSE, <<>>, e)
Link(target) == Node(S_IFLNK, 511, 1, 1, 1, 1, FALSE, target, "None")

Nothing == [p \in {} |-> NoStat]

\* what both runs find around the two trees: /t, /t/a, /t/b, /t/ab and /t/ab/x
Base ==
    (<<T>> :> PlainDir) @@ (RootA :> PlainDir) @@ (RootB :> PlainDir)
        @@ (Outside :> PlainDir) @@ (OutsideFile :> PlainFile)

DirOptions == {"absent", "dir", "dirf"} \cup ListErrors
LinkOptions == {"absent", "self", "d", "out", "up", "gone", "file"}

\* the entry d of the tree at root: absent, an empty directory, a directory
\* holding the file f, or a directory whose listing fails
DirPart(root, opt) ==
    LET d == Append(root, NameD)
    IN  CASE opt = "absent" -> Nothing
          [] opt = "dir" -> d :> PlainDir
          [] opt = "dirf" -> (d :> PlainDir) @@ (Append(d, NameF) :> PlainFile)
          [] OTHER -> (d :> FailingDir(opt)) @@ (Append(d, NameF) :> PlainFile)

\* the entry c of the tree at root: absent, a symlink to the directory that
\* holds it, to its sibling d, to /t/ab, to the parent of root, to a name
\* that does not exist, or a regular file
LinkPart(root, opt) ==
    LET c == Append(root, NameC)
    IN  CASE opt = "absent" -> Nothing
          [] opt = "self" -> c :> Link(root)
          [] opt = "d" -> c :> Link(Append(root, NameD))
          [] opt = "out" -> c :> Link(Outside)
          [] opt = "up" -> c :> Link(Front(root))
          [] opt = "gone" -> c :> Link(Append(root, NameG))
          [] OTHER -> c :> PlainFile

Run(f, a, b, r, s) == [fs |-> f, a |-> a, b |-> b, r |-> r, s |-> s]

\* trees that differ in structure: every pair of shapes, every option
StructureRuns ==
    {Run(DirPart(RootA, da) @@ LinkPart(RootA, la) @@ DirPart(RootB, db)
             @@ LinkPart(RootB, lb) @@ Base, RootA, RootB, r, s) :
        da \in DirOptions, la \in LinkOptions, db \in DirOptions, lb \in LinkOptions,
        r \in BOOLEAN, s \in BOOLEAN}

\* the entry f in A, of every type, a mount point or not
NodesA ==
    {Node(t, 420, 1, 1, 1, 1, m, <<>>, "None") :
        t \in FileTypes, m \in BOOLEAN}

\* the entry f in B, of every type and every metadata
NodesB ==
    {Node(t, p, size, uid, gid, mtime, m, <<>>, "None") :
        t \in FileTypes, p \in Perms, size \in Vals, uid \in Vals, gid \in TwoVals,
        mtime \in TwoVals, m \in BOOLEAN}

MountsOnlyDirs(n) == n.mount => S_ISDIR(n.st_mode)

\* trees that hold one entry f each, differing in metadata
MetadataRuns ==
    {Run((Append(RootA, NameF) :> na) @@ (Append(RootB, NameF) :> nb) @@ Base,
         RootA, RootB, r, FALSE) :
        na \in {n \in NodesA : MountsOnlyDirs(n)},
        nb \in {n \in NodesB : MountsOnlyDirs(n)},
        r \in BOOLEAN}

\* an argument that is not a directory
NotADirRuns ==
    {Run(Base, RootA, OutsideFile, FALSE, FALSE),
     Run(Base, OutsideFile, RootB, FALSE, FALSE)}

Runs == StructureRuns \cup MetadataRuns \cup NotADirRuns

Init ==
    /\ \E run \in Runs :
        /\ fs = run.fs
        /\ dir_a = run.a
        /\ dir_b = run.b
        /\ recursive = run.r
        /\ follow_symlinks = run.s
    /\ output = "unset"
    /\ pc = "start"
    /\ stack = <<>>
    /\ changes = <<>>
    /\ processed = 0
    /\ total = 0
    /\ ex = "None"
    /\ result = "running"
    /\ raised = "None"
    /\ printed = <<>>
    /\ written = <<"unwritten">>
    /\ followed = {}
    /\ compared = {}

----------------------------------------------------------------------------
(* main and cmp_dir, one action per step *)

\* a return of the innermost cmp_dir: to its caller's loop, or to main's else
Return ==
    /\ stack' = Front(stack)
    /\ pc' = IF Len(stack) = 1 THEN "report" ELSE "walk"

\* rethrow(ex), then the statement after it: how main ends
rethrow(e, otherwise) ==
    IF e # "None" THEN [result |-> "raise", raised |-> e]
    ELSE [result |-> otherwise, raised |-> "None"]

\* the line main prints for one difference: changeset[0], two tabs, changeset[1]
Line(changeset) == changeset[1] \o <<"\t\t">> \o changeset[2]

\* json.dump(changes): a list of two-element lists
JsonDump(ch) == [i \in 1..Len(ch) |-> <<ch[i][1], ch[i][2]>>]

\* main, lines 40-54: the two arguments are checked, then the walk is started
MainStart ==
    /\ pc = "start"
    /\ IF ~is_dir(dir_a) \/ ~is_dir(dir_b)
       THEN /\ result' = "return2"
            /\ pc' = "done"
            /\ stack' = stack
       ELSE /\ result' = result
            /\ pc' = "walk"
            /\ stack' = <<NewFrame(dir_a, dir_b)>>
    /\ UNCHANGED <<fs, dir_a, dir_b, recursive, follow_symlinks, output, changes,
                   processed, total, ex, raised, printed, written, followed, compared>>

\* cmp_dir, lines 109-141: both directories are listed
ListDirs ==
    /\ pc = "walk"
    /\ stack # <<>>
    /\ Top.pc = "list"
    /\ LET f == Top
           ex_a == ListErr(f.dir_a)
           ex_b == ListErr(f.dir_b)
           items_a == IF ex_a = "None" THEN Sorted(ChildNames(f.dir_a)) ELSE <<>>
           items_b == IF ex_b = "None" THEN Sorted(ChildNames(f.dir_b)) ELSE <<>>
       IN  IF ListingMismatch(ex_a, ex_b)
           THEN /\ changes' = append_change(changes, f.dir_a, <<ex_a, " & ", ex_b>>)
                /\ Return
                /\ total' = total
           ELSE /\ changes' = changes
                /\ stack' = SetTop([f EXCEPT !.items_a = items_a,
                                             !.item_names_b = items_b,
                                             !.pc = "loop"])
                /\ pc' = pc
                /\ total' = AddTotal(total, items_a)
    /\ UNCHANGED <<fs, dir_a, dir_b, recursive, follow_symlinks, output, processed,
                   ex, result, raised, printed, written, followed, compared>>

\* cmp_dir, lines 144-207: one iteration of the loop over items_a, up to its
\* continue, to the recursive call, or to the exception a stat raises
LoopItem ==
    /\ pc = "walk"
    /\ stack # <<>>
    /\ Top.pc = "loop"
    /\ Top.items_a # <<>>
    /\ \E o \in {ItemOutcome(Top, Head(Top.items_a))} :
       LET f == Top
           name == Head(f.items_a)
           item_a == Append(f.dir_a, name)
           item_b == Append(f.dir_b, name)
           rest == [f EXCEPT !.items_a = Tail(@),
                             !.item_names_b = Without(@, name)]
       IN  /\ processed' = processed + 1
           /\ changes' = o.changes
           /\ followed' = IF o.follow THEN followed \cup {item_a} ELSE followed
           /\ compared' = IF o.kind = "compared"
                          THEN compared \cup {Pair(item_a, item_b, o.stat_a, o.stat_b)}
                          ELSE compared
           /\ CASE o.kind = "raise" ->
                     /\ ex' = "FileNotFoundError"
                     /\ pc' = "report"
                     /\ stack' = <<>>
                [] o.kind = "recurse" ->
                     /\ ex' = ex
                     /\ IF Len(stack) >= MaxDepth
                        THEN /\ pc' = "overflow"
                             /\ stack' = stack
                        ELSE /\ pc' = pc
                             /\ stack' = Append(SetTop([rest EXCEPT !.pc = "after",
                                                                    !.item = name,
                                                                    !.stat_a = o.stat_a,
                                                                    !.stat_b = o.stat_b]),
                                                NewFrame(item_a, item_b))
                [] OTHER ->
                     /\ ex' = ex
                     /\ pc' = pc
                     /\ stack' = SetTop(rest)
    /\ UNCHANGED <<fs, dir_a, dir_b, recursive, follow_symlinks, output, total,
                   result, raised, printed, written>>

\* cmp_dir, lines 186-207 for a subdirectory, once the recursive call returned
AfterRecurse ==
    /\ pc = "walk"
    /\ stack # <<>>
    /\ Top.pc = "after"
    /\ LET f == Top
           item_a == Append(f.dir_a, f.item)
           item_b == Append(f.dir_b, f.item)
       IN  /\ changes' = cmp_rest(changes, item_a, item_b, f.stat_a, f.stat_b)
           /\ compared' = compared \cup {Pair(item_a, item_b, f.stat_a, f.stat_b)}
           /\ stack' = SetTop([f EXCEPT !.pc = "loop", !.item = <<>>,
                                        !.stat_a = NoStat, !.stat_b = NoStat])
    /\ UNCHANGED <<fs, dir_a, dir_b, recursive, follow_symlinks, output, pc, processed,
                   total, ex, result, raised, printed, written, followed>>

\* cmp_dir, lines 209-213: what is left of item_names_b, then the return
Finish ==
    /\ pc = "walk"
    /\ stack # <<>>
    /\ Top.pc = "loop"
    /\ Top.items_a = <<>>
    /\ LET f == Top
           left == f.item_names_b
       IN  changes' = changes \o
                 [i \in 1..Len(left) |-> <<<<"missing">>, Str(Append(f.dir_b, left[i]))>>]
    /\ Return
    /\ UNCHANGED <<fs, dir_a, dir_b, recursive, follow_symlinks, output, processed,
                   total, ex, result, raised, printed, written, followed, compared>>

\* a KeyboardInterrupt while cmp_dir runs, caught at line 55
Interrupt ==
    /\ pc = "walk"
    /\ ex' = "KeyboardInterrupt"
    /\ pc' = "report"
    /\ stack' = <<>>
    /\ UNCHANGED <<fs, dir_a, dir_b, recursive, follow_symlinks, output, changes,
                   processed, total, result, raised, printed, written, followed,
                   compared>>

\* a variant of lines 75-81 that returns 0 without rethrowing
ReportEmptyReturns(e) == [result |-> "return0", raised |-> "None"]

\* lines 75-81: no difference was found
ReportEmpty(e) == rethrow(e, "return0")

\* lines 83-101: the differences are printed and written, main ends at line 101
ReportChanges(e) == rethrow(e, "returnNone")

\* main, lines 67-101: the finally block. The argument output is read here
\* only, so the run's value of it is drawn here.
Report ==
    /\ pc = "report"
    /\ \E out \in {"given", "absent"} :
        /\ output' = out
        /\ IF Len(changes) = 0
           THEN /\ printed' = printed
                /\ written' = written
                /\ result' = ReportEmpty(ex).result
                /\ raised' = ReportEmpty(ex).raised
           ELSE /\ printed' = [i \in 1..Len(changes) |-> Line(changes[i])]
                /\ written' = IF out = "given" THEN JsonDump(changes) ELSE written
                /\ result' = ReportChanges(ex).result
                /\ raised' = ReportChanges(ex).raised
    /\ pc' = "done"
    /\ UNCHANGED <<fs, dir_a, dir_b, recursive, follow_symlinks, stack, changes,
                   processed, total, ex, followed, compared>>

Next ==
    \/ MainStart
    \/ ListDirs
    \/ LoopItem
    \/ AfterRecurse
    \/ Finish
    \/ Interrupt
    \/ Report

Spec == Init /\ [][Next]_vars

\* the runs over trees with symlinks: tree A of every shape, tree B with the
\* same directory entry and the same symlink or a regular file in its place,
\* every option
SymlinkRuns ==
    {Run(DirPart(RootA, d) @@ LinkPart(RootA, l[1]) @@ DirPart(RootB, d)
             @@ LinkPart(RootB, l[2]) @@ Base, RootA, RootB, r, s) :
        d \in DirOptions,
        l \in {x \in LinkOptions \X LinkOptions : x[2] \in {x[1], "file"}},
        r \in BOOLEAN, s \in BOOLEAN}

InitSymlinks ==
    /\ \E run \in SymlinkRuns :
        /\ fs = run.fs
        /\ dir_a = run.a
        /\ dir_b = run.b
        /\ recursive = run.r
        /\ follow_symlinks = run.s
    /\ output = "unset"
    /\ pc = "start"
    /\ stack = <<>>
    /\ changes = <<>>
    /\ processed = 0
    /\ total = 0
    /\ ex = "None"
    /\ result = "running"
    /\ raised = "None"
    /\ printed = <<>>
    /\ written = <<"unwritten">>
    /\ followed = {}
    /\ compared = {}

\* the walk under the scheduling of a sequential program: a step that can be
\* taken is taken
LiveSpec == InitSymlinks /\ [][Next]_vars /\ WF_vars(Next)

----------------------------------------------------------------------------
(* The trees as sets of entries *)

\* path containment: p is root or lies below it
Within(p, root) == Len(root) <= Len(p) /\ SubSeq(p, 1, Len(root)) = root

\* the entries of the tree at root
Under(root) == {p \in DOMAIN fs : p # root /\ Within(p, root)}

Rel(root, p) == SubSeq(p, Len(root) + 1, Len(p))

\* the place in tree B that corresponds to a place in tree A
Mirror(p) == IF Within(p, dir_a) THEN dir_b \o Rel(dir_a, p) ELSE p

\* the two strings append_change can build for an entry
PathStrs(p) == {Str(p), Str(p) \o <<"/">>}

SameNode(na, nb) ==
    /\ na.st_mode = nb.st_mode
    /\ na.st_size = nb.st_size
    /\ na.st_uid = nb.st_uid
    /\ na.st_gid = nb.st_gid
    /\ na.st_mtime = nb.st_mtime
    /\ na.mount = nb.mount
    /\ na.err = "None"
    /\ nb.err = "None"
    /\ nb.target \in {na.target, Mirror(na.target)}

\* same names, types, sizes, owners, mtimes and modes at every level, the
\* symlinks with the same text, every listing succeeding
IdenticalTrees ==
    /\ {Rel(dir_a, p) : p \in Under(dir_a)} = {Rel(dir_b, p) : p \in Under(dir_b)}
    /\ \A p \in Under(dir_a) : SameNode(fs[p], fs[Mirror(p)])

AllListingsSucceed == \A p \in DOMAIN fs : fs[p].err = "None"

WalkEnded == pc = "done" /\ result # "return2"

CompletedNormally == WalkEnded /\ ex = "None"

\* the differences recorded for the entry p with the reason `reason`
Recorded(p, reason) ==
    {i \in 1..Len(changes) : changes[i][1] \in PathStrs(p) /\ changes[i][2] = reason}

----------------------------------------------------------------------------
(* C1 *)

\* C1: processed and total never decrease, processed <= total holds after
\* every step, and processed = total when the walk completed without an
\* exception.
C1_Counters ==
    /\ [](processed <= total)
    /\ [](pc \in {"report", "done"} /\ ex = "None" => processed = total)
    /\ [][processed' >= processed /\ total' >= total]_vars

\* a recursive walk over nested entries that completed
C1_Witness ==
    /\ CompletedNormally
    /\ total >= 3
    /\ processed = total
    /\ recursive

----------------------------------------------------------------------------
(* C2 *)

\* C2: on identical trees, for every combination of the options, the walk
\* leaves the Difference list empty and ends with processed = total.
C2_IdenticalTreesClean ==
    (WalkEnded /\ IdenticalTrees /\ ex # "KeyboardInterrupt")
        => (changes = <<>> /\ processed = total)

----------------------------------------------------------------------------
(* C3 *)

\* C3: in a recursive run where all listings succeed, every entry of A with
\* no entry at the same place in B has exactly one Difference with the reason
\* "deleted", and every entry of B with none in A exactly one with "missing".
C3_DeletedAndMissing ==
    (CompletedNormally /\ recursive /\ AllListingsSucceed)
        => /\ \A p \in Under(dir_a) :
                ~Exists(Mirror(p)) => Cardinality(Recorded(p, <<"deleted">>)) = 1
           /\ \A q \in Under(dir_b) :
                ~Exists(dir_a \o Rel(dir_b, q))
                    => Cardinality(Recorded(q, <<"missing">>)) = 1

----------------------------------------------------------------------------
(* C4 *)

\* C4: a symlink whose resolved target lies outside the subtree of the root
\* given to the walk is never re-statted with resolution, and no directory
\* outside that subtree is recursed into.
C4_NoEscape ==
    /\ \A item \in followed : Within(Resolve(item), dir_a)
    /\ \A i \in 1..Len(stack) : Within(Resolve(stack[i].dir_a), dir_a)

----------------------------------------------------------------------------
(* C5 *)

ListingStep == pc = "walk" /\ stack # <<>> /\ Top.pc = "list" /\ ex' = "None"

\* C5: when the two listings of a directory end differently (one fails, or
\* both fail with different classes), the call appends exactly one Difference
\* for the directory with the reason "<A-failure> & <B-failure>", leaves total
\* and processed alone, compares no entry and returns without descending.
C5_ListingMismatch ==
    [][(ListingStep /\ ListErr(Top.dir_a) # ListErr(Top.dir_b))
        => /\ Len(changes') = Len(changes) + 1
           /\ SubSeq(changes', 1, Len(changes)) = changes
           /\ changes'[Len(changes')][1] \in PathStrs(Top.dir_a)
           /\ changes'[Len(changes')][2]
                = <<ListErr(Top.dir_a), " & ", ListErr(Top.dir_b)>>
           /\ total' = total
           /\ processed' = processed
           /\ compared' = compared
           /\ followed' = followed
           /\ stack' = Front(stack)]_vars

\* a walk that met a directory A could not list and B could
C5_Witness ==
    /\ pc = "done"
    /\ \E i \in 1..Len(changes) :
        changes[i] = <<Str(Append(dir_a, NameD)) \o <<"/">>,
                       <<"PermissionError", " & ", "None">>>>

----------------------------------------------------------------------------
(* C6 *)

SameFailure ==
    ListErr(Top.dir_a) = ListErr(Top.dir_b) /\ ListErr(Top.dir_a) # "None"

\* C6: when both listings fail with the same classification, the call
\* records a single Difference for the directory with the reason
\* "<failureA> & <failureB>" and stops descending there.
C6_SameFailureRecorded ==
    [][(ListingStep /\ SameFailure)
        => /\ Len(changes') = Len(changes) + 1
           /\ changes'[Len(changes')][2]
                = <<ListErr(Top.dir_a), " & ", ListErr(Top.dir_b)>>]_vars

\* C6, amended: when both listings fail with the same classification, the
\* call records no Difference for the directory, leaves total and processed
\* alone and goes on with two empty listings, so that it compares no entry and
\* descends nowhere.
C6_SameFailureSilent ==
    [][(ListingStep /\ SameFailure)
        => /\ changes' = changes
           /\ total' = total
           /\ processed' = processed
           /\ Len(stack') = Len(stack)
           /\ stack'[Len(stack)].pc = "loop"
           /\ stack'[Len(stack)].items_a = <<>>
           /\ stack'[Len(stack)].item_names_b = <<>>]_vars

\* a recursive walk that completed over a directory neither side could list
C6_Witness ==
    /\ CompletedNormally
    /\ recursive
    /\ Exists(Append(dir_a, NameD))
    /\ Exists(Append(dir_b, NameD))
    /\ fs[Append(dir_a, NameD)].err = "PermissionError"
    /\ fs[Append(dir_b, NameD)].err = "PermissionError"
    /\ changes = <<>>

----------------------------------------------------------------------------
(* C7 *)

\* C7: after a walk an exception aborted, main keeps the differences found
\* so far, prints them (and writes them when an output file is given), and
\* then raises that same exception: it never returns, whether the list is
\* empty or not.
C7_Reraise ==
    /\ []((pc = "done" /\ ex # "None")
            => /\ result = "raise"
               /\ raised = ex
               /\ Len(printed) = Len(changes)
               /\ \A i \in 1..Len(changes) :
                    printed[i] = changes[i][1] \o <<"\t\t">> \o changes[i][2]
               /\ (output = "given" /\ changes # <<>>) => written = changes)
    /\ [][pc = "report" => changes' = changes]_vars

\* an aborted walk that had found differences, reported with an output file
C7_Witness ==
    /\ pc = "done"
    /\ ex # "None"
    /\ changes # <<>>
    /\ output = "given"
    /\ result = "raise"

----------------------------------------------------------------------------
(* C8 *)

IsPathStr(s) == s # <<>> /\ s[1] = "/"

\* C8: every element of the Difference list is a pair whose first component
\* is the entry's path and whose second component is the reason.
C8_PathThenReason ==
    \A i \in 1..Len(changes) :
        /\ Len(changes[i]) = 2
        /\ IsPathStr(changes[i][1])
        /\ ~IsPathStr(changes[i][2])

----------------------------------------------------------------------------
(* C9 *)

FieldOrder ==
    <<"stat.st_size", "stat.st_uid", "stat.st_gid", "stat.st_mtime", "is_mount",
      "is_fifo", "is_block_device", "is_char_device", "is_socket", "stat.st_mode">>

\* the value of field k of the order on one side of the pair c
FieldValue(k, item, st) ==
    CASE k = 1 -> st.st_size
      [] k = 2 -> st.st_uid
      [] k = 3 -> st.st_gid
      [] k = 4 -> st.st_mtime
      [] k = 5 -> is_mount(item)
      [] k = 6 -> S_ISFIFO(st.st_mode)
      [] k = 7 -> S_ISBLK(st.st_mode)
      [] k = 8 -> S_ISCHR(st.st_mode)
      [] k = 9 -> S_ISSOCK(st.st_mode)
      [] OTHER -> st.st_mode

\* whether field k of the order counts as a mismatch for the pair c
Mismatch(c, k) ==
    CASE k = 1 -> ~S_ISDIR(c.stat_a.st_mode) /\ c.stat_a.st_size # c.stat_b.st_size
      [] k = 5 -> is_mount(c.a) /\ ~is_mount(c.b)
      [] OTHER -> FieldValue(k, c.a, c.stat_a) # FieldValue(k, c.b, c.stat_b)

\* the field-level differences recorded for the pair c
FieldDiffs(c) ==
    {i \in 1..Len(changes) :
        /\ changes[i][1] \in PathStrs(c.a)
        /\ \E k \in 1..Len(FieldOrder) : changes[i][2][1] = FieldOrder[k]}

\* C9: a matched pair that passed the symlink and directory checks has at
\* most one field-level Difference; its reason names the first mismatching
\* field in the order size (not for a directory), uid, gid, mtime, is_mount,
\* is_fifo, is_block_device, is_char_device, is_socket, mode, with both values
\* as "(a|b)"; with no mismatch there is none.
C9_FirstMismatch ==
    \A c \in compared :
        LET ks == {k \in 1..Len(FieldOrder) : Mismatch(c, k)}
        IN  IF ks = {} THEN FieldDiffs(c) = {}
            ELSE \E k \in ks, i \in FieldDiffs(c) :
                    /\ \A y \in ks : k <= y
                    /\ FieldDiffs(c) = {i}
                    /\ changes[i][2] =
                          IF k = 5 THEN <<"is_mount">>
                          ELSE <<FieldOrder[k], "(", PyStr(FieldValue(k, c.a, c.stat_a)),
                                 "|", PyStr(FieldValue(k, c.b, c.stat_b)), ")">>

\* a directory pair that differs in size, user and group
C9_Witness ==
    /\ pc = "done"
    /\ \E c \in compared :
        /\ S_ISDIR(c.stat_a.st_mode)
        /\ Mismatch(c, 2)
        /\ Mismatch(c, 3)
        /\ c.stat_a.st_size # c.stat_b.st_size
        /\ FieldDiffs(c) # {}

----------------------------------------------------------------------------
(* C10 *)

\* C10: the walk terminates for every pair of trees and every combination of
\* the options, symlinks to the containing directory or to an ancestor
\* included: cmp_dir makes finitely many recursive calls and main ends.
C10_Terminates == <>(pc = "done")

\* a recursive, symlink-following walk that followed a symlink to the
\* directory holding it and ended
C10_Witness ==
    /\ pc = "done"
    /\ recursive
    /\ follow_symlinks
    /\ \E item \in followed : Resolve(item) = Front(item)

====
